---------------------------- MODULE Spec2Model ----------------------------
(***************************************************************************)
(* A model of SimpleCV's LineScan (src/SimpleCV/LineScan.py): a Python 2   *)
(* list subclass holding the samples of a one dimensional signal, with the *)
(* attributes pointLoc, image, img, pt1 and pt2.                           *)
(*                                                                         *)
(* Objects live in `heap` (a LineScan's identity is its index), so that    *)
(* aliasing and in-place list operations (+=, append) are visible.         *)
(* Numbers are exact extended rationals n/d tagged with their Python kind  *)
(* (int, or float for every numpy/Python floating value): d = 0 encodes    *)
(* the IEEE values inf (1/0), -inf (-1/0) and nan (0/0).  float32/float64  *)
(* rounding and the sign of zero are not modelled.                         *)
(***************************************************************************)
EXTENDS Integers, Sequences, FiniteSets, TLC

VARIABLES heap, made, last

vars == <<heap, made, last>>

\* Python's None is the empty option <<>>; a value v that may be None is <<v>>
None == <<>>

Some(v) == <<v>>

-----------------------------------------------------------------------------
(* Bounds of the model.                                                    *)

\* longest sample list a LineScan is constructed with
MaxLen == 4
\* largest smoothing degree passed to smooth
MaxDegree == 2
\* number of LineScan objects kept on the heap in the chained specification
MaxObjs == 3
\* longest sample list constructed in the chained specification
ChainLen == 2

-----------------------------------------------------------------------------
(* Numbers.                                                                *)

Abs(x) == IF x < 0 THEN -x ELSE x

Sign(x) == IF x < 0 THEN -1 ELSE IF x > 0 THEN 1 ELSE 0

RECURSIVE GCD(_, _)
GCD(a, b) == IF b = 0 THEN a ELSE GCD(b, a % b)

\* the rational n/d in lowest terms with d >= 0; anything over 0 is inf, -inf or nan
Norm(n, d, isfloat) ==
    IF d = 0 THEN [n |-> Sign(n), d |-> 0, fl |-> TRUE]
    ELSE LET g == GCD(Abs(n), Abs(d))
             s == Sign(d)
         IN  [n |-> (s * n) \div g, d |-> (s * d) \div g, fl |-> isfloat]

PyInt(i) == [n |-> i, d |-> 1, fl |-> FALSE]

PyFloat(i) == [n |-> i, d |-> 1, fl |-> TRUE]

\* np.array(..., dtype='float32') and every other conversion to a float
ToFloat(x) == [x EXCEPT !.fl = TRUE]

NaN == [n |-> 0, d |-> 0, fl |-> TRUE]

IsNaN(x) == x.d = 0 /\ x.n = 0

IsInf(x) == x.d = 0 /\ x.n # 0

IsPyInt(x) == ~x.fl

\* comparisons with nan are false, as in IEEE 754
NumEq(a, b) == ~IsNaN(a) /\ ~IsNaN(b) /\ a.n = b.n /\ a.d = b.d

NumLt(a, b) ==
    /\ ~IsNaN(a)
    /\ ~IsNaN(b)
    /\ IF a.d = 0 /\ b.d = 0 THEN a.n < b.n ELSE a.n * b.d < b.n * a.d

NumGt(a, b) == NumLt(b, a)

NumAdd(a, b) ==
    IF IsNaN(a) \/ IsNaN(b) THEN NaN
    ELSE IF IsInf(a) /\ IsInf(b) THEN (IF a.n = b.n THEN a ELSE NaN)
    ELSE IF IsInf(a) THEN a
    ELSE IF IsInf(b) THEN b
    ELSE Norm(a.n * b.d + b.n * a.d, a.d * b.d, a.fl \/ b.fl)

NumNeg(a) == [a EXCEPT !.n = -a.n]

NumSub(a, b) == NumAdd(a, NumNeg(b))

NumMul(a, b) == Norm(a.n * b.n, a.d * b.d, a.fl \/ b.fl)

\* floating division: x/0 is inf, -inf or nan (numpy warns and goes on)
NumDiv(a, b) == Norm(a.n * b.d * (IF b.n < 0 THEN -1 ELSE 1), a.d * Abs(b.n), TRUE)

-----------------------------------------------------------------------------
(* Sequences.                                                              *)

RECURSIVE SumSeq(_)
SumSeq(s) == IF s = <<>> THEN PyFloat(0) ELSE NumAdd(Head(s), SumSeq(Tail(s)))

RECURSIVE SeqsOver(_, _)
SeqsOver(S, n) ==
    IF n = 0 THEN {<<>>}
    ELSE LET shorter == SeqsOver(S, n - 1)
         IN  shorter \cup {Append(s, x) : s \in {t \in shorter : Len(t) = n - 1}, x \in S}

\* np.max / np.min of a non-empty array: nan propagates
RECURSIVE NpMax(_)
NpMax(s) ==
    IF Len(s) = 1 THEN s[1]
    ELSE LET m == NpMax(Tail(s))
         IN  IF IsNaN(s[1]) \/ IsNaN(m) THEN NaN
             ELSE IF NumLt(m, s[1]) THEN s[1] ELSE m

RECURSIVE NpMin(_)
NpMin(s) ==
    IF Len(s) = 1 THEN s[1]
    ELSE LET m == NpMin(Tail(s))
         IN  IF IsNaN(s[1]) \/ IsNaN(m) THEN NaN
             ELSE IF NumLt(s[1], m) THEN s[1] ELSE m

\* list.__getitem__(self, slice(lo, hi)) and the slicing of a numpy array: a
\* negative index counts from the end, and both are clamped to 0..len
ListSlice(s, lo, hi) ==
    LET n == Len(s)
        Clamp(i) == IF i < 0 THEN (IF i + n < 0 THEN 0 ELSE i + n)
                    ELSE IF i > n THEN n ELSE i
        a == Clamp(lo)
        b == Clamp(hi)
    IN  IF a < b THEN SubSeq(s, a + 1, b) ELSE <<>>

-----------------------------------------------------------------------------
(* Construction and slicing.                                               *)

\* the attribute img is only set when an image is passed
Unset == "unset"

NoKw == <<>>

\* zip(range(0,len(self)),range(0,len(self)))
DefaultPointLoc(n) == [i \in 1..n |-> <<i - 1, i - 1>>]

\* LineScan(samples, **kw): the keys read are pointLocs, image, pt1, pt2
LineScan(samples, kw) ==
    LET Has(k) == k \in DOMAIN kw /\ kw[k] # None
    IN  [samples  |-> samples,
         image    |-> None,
         img      |-> IF Has("image") THEN kw["image"][1] ELSE Unset,
         pt1      |-> IF Has("pt1") THEN kw["pt1"] ELSE None,
         pt2      |-> IF Has("pt2") THEN kw["pt2"] ELSE None,
         pointLoc |-> IF Has("pointLocs") THEN kw["pointLocs"][1]
                      ELSE DefaultPointLoc(Len(samples))]

\* the keywords every transformation passes on:
\* image=self.image, pointLoc=self.pointLoc, pt1=self.pt1, pt2=self.pt2
MethodKw(obj) ==
    [image |-> obj.image, pointLoc |-> Some(obj.pointLoc), pt1 |-> obj.pt1, pt2 |-> obj.pt2]

\* the outcome of a call: the heap after it, and the object returned or the
\* exception raised
Ok(h, ref) == [err |-> "", heap |-> h, ret |-> ref]

Raise(e, h) == [err |-> e, heap |-> h, ret |-> 0]

\* the heap h0 of the objects that outlive a call, as the call left them in h,
\* with the call's result added (the call's temporaries are garbage)
Return(h0, h, obj) == Ok(Append(SubSeq(h, 1, Len(h0)), obj), Len(h0) + 1)

\* self.__getitem__(slice(lo, hi)): a new LineScan of the sliced list
getitem(h, self, lo, hi) ==
    [heap |-> Append(h, LineScan(ListSlice(h[self].samples, lo, hi), NoKw)),
     ref  |-> Len(h) + 1]

getslice(h, self, i, j) == getitem(h, self, i, j)

\* the expression self[i:j] in Python 2: the interpreter adds len(self) to a
\* negative index once and calls __getslice__, whose slice is then resolved by
\* list.__getitem__ (which adds len(self) to a still negative index again)
SliceExpr(h, self, i, j) ==
    LET n == Len(h[self].samples)
    IN  getslice(h, self, IF i < 0 THEN i + n ELSE i, IF j < 0 THEN j + n ELSE j)

\* the expression self[i:]: the missing bound is sys.maxint, which
\* list.__getitem__ clamps to len(self)
SliceFrom(h, self, i) ==
    LET n == Len(h[self].samples)
    IN  getslice(h, self, IF i < 0 THEN i + n ELSE i, n)

\* list += values, list.append(value): in place, on the object ref names
Extend(h, ref, values) == [h EXCEPT ![ref].samples = @ \o values]

-----------------------------------------------------------------------------
(* smooth                                                                  *)

\* 1000/exp((4*frac)**2) for frac = k/window, rounded (window = 1, 3, .., 9)
GaussMilli(k, window) ==
    LET a == Abs(k)
    IN  IF a = 0 THEN 1000
        ELSE CASE window = 3 -> 169
               [] window = 5 -> (IF a = 1 THEN 527 ELSE 77)
               [] window = 7 -> (IF a = 1 THEN 721 ELSE IF a = 2 THEN 271 ELSE 53)
               [] window = 9 -> (IF a = 1 THEN 821 ELSE IF a = 2 THEN 454
                                 ELSE IF a = 3 THEN 169 ELSE 42)

smooth(h, self, degree) ==
    LET s        == h[self].samples
        window   == degree * 2 - 1
        weight   == [i \in 1..window |-> Norm(GaussMilli(i - degree, window), 1000, TRUE)]
        count    == IF Len(s) - window > 0 THEN Len(s) - window ELSE 0
        smoothed == [i \in 1..count |->
                        NumDiv(SumSeq([j \in 1..window |-> NumMul(s[i - 1 + j], weight[j])]),
                               SumSeq(weight))]
        f        == SliceExpr(h, self, 0, degree - 1)
        front    == f.ref
        h1       == Extend(f.heap, front, smoothed)
        t        == SliceFrom(h1, self, -1 * degree)
        h2       == Extend(t.heap, front, t.heap[t.ref].samples)
    IN  Return(h, h2, LineScan(h2[front].samples, MethodKw(h2[self])))

-----------------------------------------------------------------------------
(* normalize, scale, derivative                                            *)

\* np.array(self, dtype='float32')
Float32Array(s) == [i \in 1..Len(s) |-> ToFloat(s[i])]

normalize(h, self) ==
    LET temp == Float32Array(h[self].samples)
    IN  IF temp = <<>> THEN Raise("ValueError", h)
        ELSE LET out == [i \in 1..Len(temp) |-> NumDiv(temp[i], NpMax(temp))]
             IN  Return(h, h, LineScan(out, MethodKw(h[self])))

\* value_range is a pair of integers
scale(h, self, value_range) ==
    LET temp == Float32Array(h[self].samples)
    IN  IF temp = <<>> THEN Raise("ValueError", h)
        ELSE LET vmax == NpMax(temp)
                 vmin == NpMin(temp)
                 a    == PyInt(IF value_range[1] < value_range[2]
                               THEN value_range[1] ELSE value_range[2])
                 b    == PyInt(IF value_range[1] < value_range[2]
                               THEN value_range[2] ELSE value_range[1])
                 f    == NumDiv(NumSub(b, a), NumSub(vmax, vmin))
                 out  == [i \in 1..Len(temp) |->
                             NumAdd(NumMul(f, NumSub(temp[i], vmin)), a)]
             IN  Return(h, h, LineScan(out, MethodKw(h[self])))

derivative(h, self) ==
    LET temp == Float32Array(h[self].samples)
        \* temp[1:] - temp[0:-1]
        diff == [i \in 1..(IF Len(temp) = 0 THEN 0 ELSE Len(temp) - 1) |->
                    NumSub(temp[i + 1], temp[i])]
        d    == <<PyInt(0)>> \o diff
    IN  Return(h, h, LineScan(d, MethodKw(h[self])))

-----------------------------------------------------------------------------
(* resample, fitToModel, convolve, ifft                                    *)

\* linspace(a, b, n)[i] for 0 <= i < n
Linspace(a, b, n, i) ==
    IF n = 1 THEN PyFloat(a) ELSE Norm(a * (n - 1) + i * (b - a), n - 1, TRUE)

\* the pts that resample computes from the first and last entry of pointLoc:
\* zip(linspace(pts[0,0],pts[-1,0],n), linspace(pts[0,1],pts[-1,1],n))
resample_pts(pointLoc, n) ==
    LET first == pointLoc[1]
        lst   == pointLoc[Len(pointLoc)]
    IN  [i \in 1..n |-> <<Linspace(first[1], lst[1], n, i - 1),
                          Linspace(first[2], lst[2], n, i - 1)>>]

\* signal stands for sps.resample(self, n): n floats, whose values (a Fourier
\* interpolation of the samples) the model does not compute
resample(h, self, n, signal) ==
    IF h[self].samples = <<>> THEN Raise("ValueError", h)
    ELSE IF h[self].pointLoc = <<>> THEN Raise("IndexError", h)
    ELSE LET pts == resample_pts(h[self].pointLoc, n)
         IN  Return(h, h, LineScan(signal, MethodKw(h[self])))

\* yvals stands for f(xvals, *popt), the caller's model function at the fitted
\* parameters; converged is whether spo.curve_fit found them
fitToModel(h, self, yvals, converged) ==
    IF ~converged THEN Raise("RuntimeError", h)
    ELSE Return(h, h, LineScan(yvals, MethodKw(h[self])))

\* np.convolve(a, v): the full convolution, of len(a) + len(v) - 1 values
NpConvolve(a, v) ==
    [m \in 1..(Len(a) + Len(v) - 1) |->
        SumSeq([j \in 1..Len(a) |->
                   IF m - j + 1 \in 1..Len(v)
                   THEN NumMul(ToFloat(a[j]), ToFloat(v[m - j + 1]))
                   ELSE PyFloat(0)])]

convolve(h, self, kernel) ==
    LET k   == Len(kernel)
        kl  == IF k % 2 = 0 THEN (k \div 2) - 1 ELSE (k - 1) \div 2
        kt  == IF k % 2 = 0 THEN k \div 2 ELSE (k - 1) \div 2
    IN  IF k = 0 \/ h[self].samples = <<>> THEN Raise("ValueError", h)
        ELSE LET full == NpConvolve(h[self].samples, kernel)
                 \* out[kt:-1*kl]
                 out  == ListSlice(full, kt, -1 * kl)
             IN  Return(h, h, LineScan(out, MethodKw(h[self])))

\* real stands for np.fft.ifft(fft).real, any list of floats as the caller's
\* spectrum is any list of complex numbers
ifft(h, self, real) ==
    IF real = <<>> THEN Raise("ValueError", h)
    ELSE LET retVal == LineScan(real, NoKw)
         IN  Return(h, h, [retVal EXCEPT !.image = h[self].image,
                                         !.pointLoc = h[self].pointLoc])

-----------------------------------------------------------------------------
(* threshold, invert, median, applyLUT                                     *)

threshold(h, self, thresh, invert) ==
    LET high == IF invert THEN 0 ELSE 255
        low  == IF invert THEN 255 ELSE 0
        s    == h[self].samples
        out  == [i \in 1..Len(s) |->
                    IF NumLt(s[i], PyInt(thresh)) THEN PyInt(low) ELSE PyInt(high)]
    IN  Return(h, h, LineScan(out, MethodKw(h[self])))

invert(h, self) ==
    LET s   == h[self].samples
        out == [i \in 1..Len(s) |-> NumSub(PyInt(255), s[i])]
    IN  Return(h, h, LineScan(out, MethodKw(h[self])))

\* the list s in ascending order
RECURSIVE Sorted(_)
Sorted(s) ==
    IF s = <<>> THEN <<>>
    ELSE LET rest == Sorted(Tail(s))
             lo   == {i \in 1..Len(rest) : NumLt(rest[i], Head(s))}
         IN  SubSeq(rest, 1, Cardinality(lo)) \o <<Head(s)>>
             \o SubSeq(rest, Cardinality(lo) + 1, Len(rest))

\* np.median: the middle value, or the mean of the two middle values of an even
\* number of values; nan for no values, or when a value is nan
NpMedian(s) ==
    IF s = <<>> \/ \E i \in 1..Len(s) : IsNaN(s[i]) THEN NaN
    ELSE LET srt == Sorted(s)
             n   == Len(s)
         IN  IF n % 2 = 1 THEN ToFloat(srt[(n + 1) \div 2])
             ELSE NumDiv(NumAdd(srt[n \div 2], srt[(n \div 2) + 1]), PyInt(2))

\* the loops of median, appending to the list o.ref names
median_into(h, o, self, skip) ==
    LET out  == o.ref
        s    == o.heap[self].samples
        vsz  == Len(s)
        \* np.median(self[(idx-skip):(idx+skip)]) for idx in range(skip,vsz-skip)
        vals == [i \in 1..(IF vsz - 2 * skip > 0 THEN vsz - 2 * skip ELSE 0) |->
                    NpMedian(ListSlice(s, i - 1, i - 1 + 2 * skip))]
        h1   == Extend(o.heap, out, vals)
        t    == SliceFrom(h1, self, -1 * skip)
        h2   == Extend(t.heap, out, t.heap[t.ref].samples)
    IN  Return(h, h2, LineScan(h2[out].samples, MethodKw(h2[self])))

\* median with "out = self" for "out = self[0:skip]": no copy is made
median_nocopy(h, self, sz0) ==
    LET sz   == IF sz0 % 2 = 0 THEN sz0 + 1 ELSE sz0
        skip == sz \div 2
    IN  median_into(h, [heap |-> h, ref |-> self], self, skip)

median(h, self, sz0) ==
    LET sz   == IF sz0 % 2 = 0 THEN sz0 + 1 ELSE sz0
        skip == sz \div 2
    IN  median_into(h, SliceExpr(h, self, 0, skip), self, skip)

\* lut[pt] for each pt in turn: a float is no index, and an integer indexes the
\* list from the end when negative
applyLUT(h, self, lut) ==
    LET s      == h[self].samples
        n      == Len(lut)
        Bad(i) == s[i].fl \/ s[i].n \notin (-n)..(n - 1)
        bad    == {i \in 1..Len(s) : Bad(i)}
    IN  IF bad # {}
        THEN LET i == CHOOSE i \in bad : \A j \in bad : i <= j
             IN  Raise(IF s[i].fl THEN "TypeError" ELSE "IndexError", h)
        ELSE LET out == [i \in 1..Len(s) |->
                            lut[(IF s[i].n < 0 THEN s[i].n + n ELSE s[i].n) + 1]]
             IN  Return(h, h, LineScan(out, MethodKw(h[self])))

\* the public slicing self[i:j]
slice(h, self, i, j) ==
    LET r == SliceExpr(h, self, i, j)
    IN  Ok(r.heap, r.ref)

-----------------------------------------------------------------------------
(* maxima, minima, localMaxima, localMinima                                *)

\* np.where(flags)[0]: the 0-based indices of the true flags, ascending
RECURSIVE Where(_)
Where(flags) ==
    IF flags = <<>> THEN <<>>
    ELSE LET n == Len(flags)
         IN  Where(SubSeq(flags, 1, n - 1)) \o (IF flags[n] THEN <<n - 1>> ELSE <<>>)

\* np.array(self): one float makes every element a float
NpArray(s) == IF \E i \in 1..Len(s) : s[i].fl THEN Float32Array(s) ELSE s

\* zip(idxs, values, pts) with pts = np.array(self.pointLoc)[idxs]
ZipExtrema(obj, idxs, values) ==
    IF \E k \in 1..Len(idxs) : idxs[k] >= Len(obj.pointLoc)
    THEN [err |-> "IndexError", ret |-> <<>>]
    ELSE [err |-> "",
          ret |-> [k \in 1..Len(idxs) |-> <<idxs[k], values[k], obj.pointLoc[idxs[k] + 1]>>]]

minima(obj) ==
    LET s == obj.samples
    IN  IF s = <<>> THEN [err |-> "ValueError", ret |-> <<>>]
        ELSE LET minvalue == NpMin(s)
                 idxs     == Where([i \in 1..Len(s) |-> NumEq(s[i], minvalue)])
             IN  ZipExtrema(obj, idxs, [k \in 1..Len(idxs) |-> ToFloat(minvalue)])

\* maxima with np.argmax for np.where: the first index only
maxima_first(obj) ==
    LET s == obj.samples
    IN  IF s = <<>> THEN [err |-> "ValueError", ret |-> <<>>]
        ELSE LET maxvalue == NpMax(s)
                 idxs     == Where([i \in 1..Len(s) |-> NumEq(s[i], maxvalue)])
             IN  ZipExtrema(obj, SubSeq(idxs, 1, 1), <<ToFloat(maxvalue)>>)

maxima(obj) ==
    LET s == obj.samples
    IN  IF s = <<>> THEN [err |-> "ValueError", ret |-> <<>>]
        ELSE LET maxvalue == NpMax(s)
                 idxs     == Where([i \in 1..Len(s) |-> NumEq(s[i], maxvalue)])
             IN  ZipExtrema(obj, idxs, [k \in 1..Len(idxs) |-> ToFloat(maxvalue)])

\* localMaxima with both ends of the line always flagged
localMaxima_ends(obj) ==
    LET temp == NpArray(obj.samples)
        n    == Len(temp)
        idx  == Where([i \in 1..(IF n = 0 THEN 1 ELSE n) |->
                          \/ i = 1
                          \/ i >= n
                          \/ NumGt(temp[i], temp[i - 1]) /\ NumGt(temp[i], temp[i + 1])])
    IN  IF n = 0 THEN [err |-> "IndexError", ret |-> <<>>]
        ELSE ZipExtrema(obj, idx, [k \in 1..Len(idx) |-> temp[idx[k] + 1]])

localMaxima(obj) ==
    LET temp == NpArray(obj.samples)
        n    == Len(temp)
        \* np.r_[True, temp[1:] > temp[:-1]] & np.r_[temp[:-1] > temp[1:], True]
        idx  == Where([i \in 1..(IF n = 0 THEN 1 ELSE n) |->
                          /\ (i = 1 \/ NumGt(temp[i], temp[i - 1]))
                          /\ (i >= n \/ NumGt(temp[i], temp[i + 1]))])
    IN  IF n = 0 THEN [err |-> "IndexError", ret |-> <<>>]
        ELSE ZipExtrema(obj, idx, [k \in 1..Len(idx) |-> temp[idx[k] + 1]])

localMinima(obj) ==
    LET temp == NpArray(obj.samples)
        n    == Len(temp)
        \* np.r_[True, temp[1:] < temp[:-1]] & np.r_[temp[:-1] < temp[1:], True]
        idx  == Where([i \in 1..(IF n = 0 THEN 1 ELSE n) |->
                          /\ (i = 1 \/ NumLt(temp[i], temp[i - 1]))
                          /\ (i >= n \/ NumLt(temp[i], temp[i + 1]))])
    IN  IF n = 0 THEN [err |-> "IndexError", ret |-> <<>>]
        ELSE ZipExtrema(obj, idx, [k \in 1..Len(idx) |-> temp[idx[k] + 1]])

-----------------------------------------------------------------------------
(* createEmptyLUT                                                          *)

\* np.clip(x, lo, hi)
Clip(x, lo, hi) == IF x < lo THEN lo ELSE IF x > hi THEN hi ELSE x

\* np.around(n/d, 0) for d > 0: to the nearest integer, a half to the even one
Around(n, d) ==
    LET q == n \div d
        r == n % d
    IN  IF 2 * r < d THEN q
        ELSE IF 2 * r > d THEN q + 1
        ELSE IF q % 2 = 0 THEN q ELSE q + 1

\* np.array(.., dtype='uint8') of the integer part x of a float: C leaves the
\* conversion of a value outside 0..255 undefined, and the build either wraps
\* it modulo 256 or saturates it
UInt8(x, saturate) ==
    IF x \in 0..255 THEN x
    ELSE IF saturate THEN (IF x < 0 THEN 0 ELSE 255)
    ELSE x % 256

\* defaultVal is [tuple |-> TRUE, v |-> <<start, stop>>] for a list or tuple and
\* [tuple |-> FALSE, v |-> <<number>>] for a number (integers in the model)
createEmptyLUT(defaultVal, saturate) ==
    IF defaultVal.tuple
    THEN LET start == Clip(defaultVal.v[1], 0, 255)
             stop  == Clip(defaultVal.v[2], 0, 255)
         IN  \* np.around(np.linspace(start,stop,256),0) as uint8
             [i \in 1..256 |->
                 PyInt(UInt8(Around(start * 255 + (i - 1) * (stop - start), 255), saturate))]
    ELSE IF defaultVal.v[1] = 0
    THEN [i \in 1..256 |-> PyFloat(0)]
    ELSE IF defaultVal.v[1] > 0
    THEN [i \in 1..256 |-> PyInt(UInt8(Clip(defaultVal.v[1], 1, 255), saturate))]
    ELSE \* np.linspace(0,256,256) as uint8: the float i*256/255 is truncated
         [i \in 1..256 |-> PyInt(UInt8(((i - 1) * 256) \div 255, saturate))]

-----------------------------------------------------------------------------
(* The inputs of the model.                                                *)

\* the integer samples a LineScan is constructed from
SampleValues == {PyInt(v) : v \in {-2, 0, 1}}

\* the pixels of a scan line that starts at (3,7): horizontal or diagonal
ScanLine(n, dy) == [i \in 1..n |-> <<2 + i, 7 + dy * (i - 1)>>]

\* the keyword arguments a LineScan of n samples is constructed with
ScanKw(n, dy) ==
    [pointLocs |-> Some(ScanLine(n, dy)), image |-> Some("lenna"),
     pt1 |-> Some(<<3, 7>>), pt2 |-> Some(<<3 + n, 7 + dy * n>>)]

RootKws(n) == {NoKw} \cup {ScanKw(n, dy) : dy \in {0, 1}}

\* the float lists that stand for computed values the model does not compute
Halves(n) == [i \in 1..n |-> Norm(2 * i - 1, 2, TRUE)]

FloatLists(n) == {[i \in 1..n |-> PyFloat(0)], Halves(n)}

\* the kernels: the ramp 1, 2, .., k for each length k
Kernel(k) == [i \in 1..k |-> PyInt(i)]

\* a short lookup table, and the table createEmptyLUT() makes by default
ShortLUT == <<PyInt(7), PyInt(9)>>

Luts == {<<>>, <<PyInt(5)>>, ShortLUT, createEmptyLUT([tuple |-> FALSE, v |-> <<-1>>], FALSE)}

LutDefaults ==
    {[tuple |-> FALSE, v |-> <<v>>] : v \in {-300, -1, 0, 1, 7, 255, 256, 300}}
    \cup {[tuple |-> TRUE, v |-> p] : p \in {<<0, 255>>, <<255, 0>>, <<-5, 300>>, <<10, 20>>}}

-----------------------------------------------------------------------------
(* The state machine: a call of a method on the object o.                  *)

\* a call that returns a new LineScan or raises
Call(name, o, arg, r) ==
    /\ heap' = r.heap
    /\ made' = IF r.err = "" THEN Append(made, [op |-> name, self |-> o, arg |-> arg])
               ELSE made
    /\ last' = [op |-> name, self |-> o, arg |-> arg, err |-> r.err, ret |-> r.ret]

\* a call that returns a value, and leaves the heap alone
Query(name, o, arg, r) ==
    /\ last' = [op |-> name, self |-> o, arg |-> arg, err |-> r.err, ret |-> r.ret]
    /\ UNCHANGED <<heap, made>>

Smooth(o, degree) == Call("smooth", o, degree, smooth(heap, o, degree))

Normalize(o) == Call("normalize", o, None, normalize(heap, o))

Scale(o, value_range) == Call("scale", o, value_range, scale(heap, o, value_range))

Derivative(o) == Call("derivative", o, None, derivative(heap, o))

Resample(o, n, signal) == Call("resample", o, n, resample(heap, o, n, signal))

FitToModel(o, yvals, converged) ==
    Call("fitToModel", o, converged, fitToModel(heap, o, yvals, converged))

Convolve(o, kernel) == Call("convolve", o, kernel, convolve(heap, o, kernel))

Ifft(o, real) == Call("ifft", o, real, ifft(heap, o, real))

Threshold(o, thresh, inv) ==
    Call("threshold", o, <<thresh, inv>>, threshold(heap, o, thresh, inv))

Invert(o) == Call("invert", o, None, invert(heap, o))

Median(o, sz) == Call("median", o, sz, median(heap, o, sz))

ApplyLUT(o, lut) == Call("applyLUT", o, lut, applyLUT(heap, o, lut))

Slice(o, i, j) == Call("slice", o, <<i, j>>, slice(heap, o, i, j))

Minima(o) == Query("minima", o, None, minima(heap[o]))

Maxima(o) == Query("maxima", o, None, maxima(heap[o]))

LocalMaxima(o) == Query("localMaxima", o, None, localMaxima(heap[o]))

LocalMinima(o) == Query("localMinima", o, None, localMinima(heap[o]))

CreateEmptyLUT(o, defaultVal) ==
    \E saturate \in BOOLEAN :
        Query("createEmptyLUT", o, defaultVal,
              [err |-> "", ret |-> createEmptyLUT(defaultVal, saturate)])

\* LineScan(samples, **kw), the only object on the heap
Construct(samples, kw) ==
    /\ heap = <<LineScan(samples, kw)>>
    /\ made = <<[op |-> "__init__", self |-> 0, arg |-> kw]>>
    /\ last = [op |-> "__init__", self |-> 0, arg |-> kw, err |-> "", ret |-> 1]

-----------------------------------------------------------------------------
(* Spec: one LineScan is constructed and one method is called on it.       *)

Init == \E samples \in SeqsOver(SampleValues, MaxLen) :
            \E kw \in RootKws(Len(samples)) : Construct(samples, kw)

\* no method has been called yet
Fresh == last.op = "__init__"

Next ==
    \/ \E degree \in 1..MaxDegree : Fresh /\ Smooth(1, degree)
    \/ Fresh /\ Normalize(1)
    \/ \E value_range \in {<<0, 1>>, <<255, 0>>} : Fresh /\ Scale(1, value_range)
    \/ Fresh /\ Derivative(1)
    \/ \E n \in 1..MaxLen : \E signal \in FloatLists(n) : Fresh /\ Resample(1, n, signal)
    \/ \E yvals \in FloatLists(Len(heap[1].samples)) :
           \E converged \in BOOLEAN : Fresh /\ FitToModel(1, yvals, converged)
    \/ \E k \in 0..(MaxLen + 1) : Fresh /\ Convolve(1, Kernel(k))
    \/ \E n \in 0..MaxLen : \E real \in FloatLists(n) : Fresh /\ Ifft(1, real)
    \/ \E thresh \in {1, 128} : \E inv \in BOOLEAN : Fresh /\ Threshold(1, thresh, inv)
    \/ Fresh /\ Invert(1)
    \/ \E sz \in 1..MaxLen : Fresh /\ Median(1, sz)
    \/ \E lut \in Luts : Fresh /\ ApplyLUT(1, lut)
    \/ \E i, j \in -1..2 : Fresh /\ Slice(1, i, j)
    \/ Fresh /\ Minima(1)
    \/ Fresh /\ Maxima(1)
    \/ Fresh /\ LocalMaxima(1)
    \/ Fresh /\ LocalMinima(1)

Spec == Init /\ [][Next]_vars

-----------------------------------------------------------------------------
(* SpecLUT: one LineScan is constructed and createEmptyLUT is called.      *)

InitLUT == \E samples \in SeqsOver(SampleValues, 1) :
               \E kw \in RootKws(Len(samples)) : Construct(samples, kw)

NextLUT == \E defaultVal \in LutDefaults : Fresh /\ CreateEmptyLUT(1, defaultVal)

SpecLUT == InitLUT /\ [][NextLUT]_vars

-----------------------------------------------------------------------------
(* SpecChain: methods are called, with fixed arguments, on the constructed *)
(* LineScan and on the LineScans the calls return.                         *)

InitChain == \E samples \in SeqsOver({PyInt(0), PyInt(1)}, ChainLen) :
                 \E kw \in {NoKw, ScanKw(Len(samples), 0)} : Construct(samples, kw)

Room == Len(heap) < MaxObjs

NextChain ==
    \/ \E o \in DOMAIN heap : Room /\ Smooth(o, 2)
    \/ \E o \in DOMAIN heap : Room /\ Normalize(o)
    \/ \E o \in DOMAIN heap : Room /\ Scale(o, <<0, 1>>)
    \/ \E o \in DOMAIN heap : Room /\ Derivative(o)
    \/ \E o \in DOMAIN heap : Room /\ Resample(o, 2, Halves(2))
    \/ \E o \in DOMAIN heap : Room /\ FitToModel(o, Halves(Len(heap[o].samples)), TRUE)
    \/ \E o \in DOMAIN heap : Room /\ Convolve(o, Kernel(3))
    \/ \E o \in DOMAIN heap : Room /\ Ifft(o, Halves(2))
    \/ \E o \in DOMAIN heap : Room /\ Threshold(o, 1, FALSE)
    \/ \E o \in DOMAIN heap : Room /\ Invert(o)
    \/ \E o \in DOMAIN heap : Room /\ Median(o, 3)
    \/ \E o \in DOMAIN heap : Room /\ ApplyLUT(o, ShortLUT)
    \/ \E o \in DOMAIN heap : Room /\ Slice(o, 0, 1)

SpecChain == InitChain /\ [][NextChain]_vars

-----------------------------------------------------------------------------
(* The properties.                                                         *)

\* the last call was of method name, and returned
Returned(name) == last.op = name /\ last.err = ""

\* the samples of the object the last call was made on, and of the one it returned
SelfSamples == heap[last.self].samples

RetSamples == heap[last.ret].samples

\* the entries of a list of (index, value, point) are in ascending index order
Ascending(ret) == \A k \in 1..(Len(ret) - 1) : ret[k][1] < ret[k + 1][1]

\* the list ret of (index, value, point) holds exactly the indices of idxs, each
\* with the sample and the coordinate of obj at that index
PairsOf(obj, ret, idxs) ==
    /\ Ascending(ret)
    /\ {ret[k][1] : k \in 1..Len(ret)} = idxs
    /\ \A k \in 1..Len(ret) :
           /\ NumEq(ret[k][2], obj.samples[ret[k][1] + 1])
           /\ ret[k][3] = obj.pointLoc[ret[k][1] + 1]

\* C1: smooth(d) returns a LineScan of exactly len(S) samples, whatever the
\* length of S and the degree d >= 1.
C1_SmoothKeepsLength ==
    Returned("smooth") => Len(RetSamples) = Len(SelfSamples)

\* C2: derivative() returns a LineScan of exactly len(S) samples (none for the
\* empty S), whose sample 0 is 0 and whose sample i >= 1 is S[i] - S[i-1].
C2_Derivative ==
    Returned("derivative") =>
        /\ Len(RetSamples) = Len(SelfSamples)
        /\ Len(RetSamples) >= 1 => NumEq(RetSamples[1], PyInt(0))
        /\ \A i \in 2..Len(SelfSamples) :
               i <= Len(RetSamples)
               /\ NumEq(RetSamples[i], NumSub(SelfSamples[i], SelfSamples[i - 1]))

\* C3: convolve with a kernel of length k, 1 <= k <= n, returns exactly n
\* samples: sample i is sample i + front of the full convolution, where front
\* is k/2 for an even k and (k-1)/2 for an odd k.
C3_ConvolveCrop ==
    (Returned("convolve") /\ Len(last.arg) \in 1..Len(SelfSamples)) =>
        LET k     == Len(last.arg)
            front == IF k % 2 = 0 THEN k \div 2 ELSE (k - 1) \div 2
            full  == NpConvolve(SelfSamples, last.arg)
        IN  /\ Len(RetSamples) = Len(SelfSamples)
            /\ \A i \in 1..Len(SelfSamples) :
                   i <= Len(RetSamples) /\ NumEq(RetSamples[i], full[i + front])

\* the indices C4 names for localMaxima (greater = TRUE) and localMinima: the
\* first, the last, and every interior index strictly beyond both neighbours
C4Indices(s, greater) ==
    {i \in 0..(Len(s) - 1) :
        \/ i = 0
        \/ i = Len(s) - 1
        \/ IF greater THEN NumGt(s[i + 1], s[i]) /\ NumGt(s[i + 1], s[i + 2])
           ELSE NumLt(s[i + 1], s[i]) /\ NumLt(s[i + 1], s[i + 2])}

\* C4 as the specification states it: on a LineScan of n >= 1 samples,
\* localMaxima and localMinima return, in ascending order, the first index, the
\* last index and every interior index whose sample is strictly greater (less)
\* than both neighbours, each with its sample and its coordinate.
C4_EndsAlwaysIncluded ==
    (last.op \in {"localMaxima", "localMinima"} /\ Len(SelfSamples) >= 1) =>
        /\ last.err = ""
        /\ PairsOf(heap[last.self], last.ret,
                   C4Indices(SelfSamples, last.op = "localMaxima"))

\* the indices localMaxima (greater = TRUE) and localMinima do return: those
\* whose sample is strictly beyond each neighbour the index has
LocalExtremaIndices(s, greater) ==
    {i \in 0..(Len(s) - 1) :
        /\ i = 0 \/ (IF greater THEN NumGt(s[i + 1], s[i]) ELSE NumLt(s[i + 1], s[i]))
        /\ i = Len(s) - 1
           \/ (IF greater THEN NumGt(s[i + 1], s[i + 2]) ELSE NumLt(s[i + 1], s[i + 2]))}

\* C4, amended: on a LineScan of n >= 1 samples, localMaxima and localMinima
\* return, in ascending order, exactly the indices whose sample is strictly
\* greater (less) than every neighbour the index has: an interior index is
\* compared with both neighbours, the first and the last index with their single
\* neighbour (and the only index of a one-sample LineScan with none); each index
\* comes with its sample and its coordinate.
C4_LocalExtrema ==
    (last.op \in {"localMaxima", "localMinima"} /\ Len(SelfSamples) >= 1) =>
        /\ last.err = ""
        /\ PairsOf(heap[last.self], last.ret,
                   LocalExtremaIndices(SelfSamples, last.op = "localMaxima"))

\* localMaxima left out the first index (smaller than its neighbour) and
\* reported an interior peak and the last index
C4_Witness ==
    /\ Returned("localMaxima")
    /\ Len(SelfSamples) = 4
    /\ Len(last.ret) = 2
    /\ last.ret[1][1] = 1
    /\ last.ret[2][1] = 3

\* C5: on a non-empty LineScan, maxima() (minima()) returns one entry for every
\* index whose sample is the greatest (least) and for no other, in ascending
\* index order, each entry being the index, the extreme value and the
\* coordinate at that index.
C5_GlobalExtrema ==
    (last.op \in {"maxima", "minima"} /\ Len(SelfSamples) >= 1) =>
        LET s == SelfSamples
            extreme == {i \in 0..(Len(s) - 1) :
                           \A j \in 1..Len(s) :
                               IF last.op = "maxima" THEN ~NumLt(s[i + 1], s[j])
                               ELSE ~NumLt(s[j], s[i + 1])}
        IN  /\ last.err = ""
            /\ PairsOf(heap[last.self], last.ret, extreme)

\* maxima() reported a tie: two of three samples
C5_Witness ==
    /\ Returned("maxima")
    /\ Len(SelfSamples) = 3
    /\ Len(last.ret) = 2
    /\ heap[last.self].pointLoc # DefaultPointLoc(3)

\* C6: for n >= 1 and a LineScan with at least one coordinate, resample(n)
\* returns n samples and n coordinates, the coordinates being the n evenly
\* spaced points from the first to the last coordinate of the original.
C6_ResampleCoords ==
    Returned("resample") =>
        LET n   == last.arg
            pts == resample_pts(heap[last.self].pointLoc, n)
            got == heap[last.ret].pointLoc
        IN  /\ Len(RetSamples) = n
            /\ Len(got) = n
            /\ \A i \in 1..n :
                   /\ NumEq(PyInt(got[i][1]), pts[i][1])
                   /\ NumEq(PyInt(got[i][2]), pts[i][2])

\* the object o was constructed with an explicit coordinate sequence
Explicit(o) == made[o].op = "__init__" /\ "pointLocs" \in DOMAIN made[o].arg

\* C7: the LineScan that smooth, normalize, scale, derivative, fitToModel,
\* convolve, threshold, invert, median and applyLUT return carries the
\* coordinate sequence the original was constructed with.
C7_CoordsCarried ==
    ( /\ last.op \in {"smooth", "normalize", "scale", "derivative", "fitToModel",
                      "convolve", "threshold", "invert", "median", "applyLUT"}
      /\ last.err = ""
      /\ Explicit(last.self) ) =>
        heap[last.ret].pointLoc = heap[last.self].pointLoc

\* the object o is the constructed LineScan (object 1) or comes from it by the
\* transformations C8 lists
RECURSIVE Transformed(_)
Transformed(o) ==
    \/ o = 1
    \/ /\ made[o].op \in {"smooth", "normalize", "scale", "derivative", "resample",
                          "fitToModel", "convolve", "ifft", "threshold", "invert",
                          "median", "applyLUT"}
       /\ Transformed(made[o].self)

\* C8: every LineScan obtained from S by a sequence of transformations has the
\* two endpoints of S.
C8_EndpointsCarried ==
    \A o \in DOMAIN heap :
        Transformed(o) => heap[o].pt1 = heap[1].pt1 /\ heap[o].pt2 = heap[1].pt2

\* C9: a call leaves the samples, the coordinates and the endpoints of every
\* existing LineScan (the one it is made on among them) as they were, and the
\* LineScan it returns is a new object.
C9_OriginalUntouched ==
    [][ /\ \A o \in DOMAIN heap :
               /\ o \in DOMAIN heap'
               /\ heap'[o].samples = heap[o].samples
               /\ heap'[o].pointLoc = heap[o].pointLoc
               /\ heap'[o].pt1 = heap[o].pt1
               /\ heap'[o].pt2 = heap[o].pt2
        /\ last'.err = "" => last'.ret # last'.self /\ last'.ret \notin DOMAIN heap
      ]_vars

\* median and then smooth were called on the constructed LineScan, which has
\* samples, coordinates and endpoints
C9_Witness ==
    /\ Len(heap) = 3
    /\ made[2].op = "median" /\ made[2].self = 1
    /\ made[3].op = "smooth" /\ made[3].self = 1
    /\ Len(heap[1].samples) = 2
    /\ heap[1].pt1 # None
    /\ Len(heap[2].samples) = 2

\* C10: for a negative defaultVal, createEmptyLUT returns 256 entries, entry
\* i being i.
C10_NegativeRamp ==
    (Returned("createEmptyLUT") /\ ~last.arg.tuple /\ last.arg.v[1] < 0) =>
        /\ Len(last.ret) = 256
        /\ \A i \in 0..255 : last.ret[i + 1] = PyInt(i)

\* ---- C11: applyLUT and samples outside the table ------------------------
InTable(x, lut) == ~x.fl /\ x.d = 1 /\ x.n \in 0..(Len(lut) - 1)

\* C11: for integer samples, applyLUT(lut) ends in an out-of-range index
\* error, returning no LineScan, when some sample lies outside
\* [0, len(lut)); when every sample lies inside, it returns the LineScan
\* whose sample i is lut[S[i]].
C11_OutOfRangeRaises ==
    (last.op = "applyLUT" /\ \A i \in DOMAIN SelfSamples : IsPyInt(SelfSamples[i])) =>
        IF \E i \in DOMAIN SelfSamples : ~InTable(SelfSamples[i], last.arg)
        THEN last.err = "IndexError"
        ELSE /\ last.err = ""
             /\ Len(RetSamples) = Len(SelfSamples)
             /\ \A i \in DOMAIN SelfSamples :
                    RetSamples[i] = last.arg[SelfSamples[i].n + 1]

\* ---- C12: the window of median -------------------------------------------
MedianWindow == IF last.arg % 2 = 0 THEN last.arg + 1 ELSE last.arg

\* m is the middle value of the odd-length list win
IsMiddleOf(m, win) ==
    /\ \E k \in DOMAIN win : NumEq(win[k], m)
    /\ 2 * Cardinality({k \in DOMAIN win : NumLt(win[k], m)}) < Len(win)
    /\ 2 * Cardinality({k \in DOMAIN win : NumGt(win[k], m)}) < Len(win)

\* C12: with w = sz made odd, h = floor(w/2) and n >= 2h, median(sz) has
\* exactly n samples, its first h and last h samples are those of S, and
\* every sample i with h <= i < n-h is the median of the w samples
\* S[i-h], ..., S[i+h].
C12_MedianOfOddWindow ==
    LET n == Len(SelfSamples)
        h == MedianWindow \div 2
    IN  (last.op = "median" /\ n >= 2 * h) =>
            /\ last.err = ""
            /\ Len(RetSamples) = n
            /\ \A i \in (1..h) \cup ((n - h + 1)..n) : RetSamples[i] = SelfSamples[i]
            /\ \A i \in (h + 1)..(n - h) :
                   IsMiddleOf(RetSamples[i], SubSeq(SelfSamples, i - h, i + h))

=============================================================================
